---- MODULE Spec2Model ----
(***************************************************************************)
(* The NgRx store of angular-showcase: the counter, todo and actions-log   *)
(* slices, their reducers, selectors and the root reducer that combines    *)
(* them; the todo demo component in front of it; and UsersService.         *)
(***************************************************************************)
EXTENDS Integers, Sequences, FiniteSets, TLC

VARIABLES
    state,       \* AppState: [counter, todo, actionsLog]
    now,         \* the value Date.now() returns
    lastAction,  \* history: the action of the most recent dispatch
    prev,        \* history: the AppState before the most recent dispatch
    order,       \* history: slice keys in the order the last dispatch reduced them
    sinceClear,  \* history: every action dispatched since the last clearLogs
    values,      \* history: the values count has taken since the last reset
    n,           \* history: number of dispatches so far
    twin,        \* a second run of the store, with a clock of its own
    newTodoText, \* NgrxTodoDemo.newTodoText, a string as its characters
    submitted,   \* history: newTodoText when NgrxTodoDemo.addTodo was last called
    calls,       \* history: number of calls of NgrxTodoDemo.addTodo
    baseUsers,   \* UsersService.baseUsers
    users,       \* UsersService.users
    applied,     \* history: the argument of the most recent filterUsers call
    inFlight     \* number of HTTP requests of fetchUsers not yet answered

demoVars == <<newTodoText, submitted, calls>>
userVars == <<baseUsers, users, applied, inFlight>>

vars == <<state, now, lastAction, prev, order, sinceClear, values, n, twin,
          demoVars, userVars>>

----------------------------------------------------------------------------
(* Bounds of the model                                                     *)

MaxDispatch == 3
MaxLogDispatch == 11
ClockStart == 4
MaxTicks == 1
MaxCalls == 2
MaxInFlight == 2

----------------------------------------------------------------------------
(* Actions (counter.actions.ts, todo.actions.ts, actions-log.actions.ts)   *)

increment == [type |-> "[Counter] Increment"]
decrement == [type |-> "[Counter] Decrement"]
reset == [type |-> "[Counter] Reset"]

addTodo(text) == [type |-> "[Todo] Add Todo", text |-> text]
toggleTodo(id) == [type |-> "[Todo] Toggle Todo", id |-> id]
deleteTodo(id) == [type |-> "[Todo] Delete Todo", id |-> id]
setFilter(filter) == [type |-> "[Todo] Set Filter", filter |-> filter]
clearCompleted == [type |-> "[Todo] Clear Completed"]

clearLogs == [type |-> "[Actions Log] Clear Logs"]

\* The action the store dispatches to itself on start-up; no reducer of the
\* application has a handler for it.
storeInit == [type |-> "@ngrx/store/init"]

----------------------------------------------------------------------------
(* Initial states of the slices                                            *)

initialCounterState == [count |-> 0, history |-> <<0>>]

initialTodoState ==
    [todos |-> << [id |-> 1, text |-> "Learn NgRx", completed |-> FALSE],
                  [id |-> 2, text |-> "Create a store", completed |-> TRUE],
                  [id |-> 3, text |-> "Implement actions", completed |-> FALSE] >>,
     filter |-> "all"]

initialActionsLogState == [logs |-> <<>>]

----------------------------------------------------------------------------
(* Array helpers                                                           *)

\* Array.prototype.slice(start, end) with 0 <= start <= end, end exclusive
slice_Unbounded(arr, start, end) == arr
slice_KeepLast(arr, start, end) ==
    IF Len(arr) <= end - start THEN arr
    ELSE SubSeq(arr, Len(arr) - (end - start) + 1, Len(arr))
slice(arr, start, end) ==
    SubSeq(arr, start + 1, IF end < Len(arr) THEN end ELSE Len(arr))

----------------------------------------------------------------------------
(* counterReducer                                                          *)

counterOnIncrement_StaleHistory(s) ==
    [s EXCEPT !.count = s.count + 1, !.history = Append(s.history, s.count)]
counterOnIncrement(s) ==
    [s EXCEPT !.count = s.count + 1, !.history = Append(s.history, s.count + 1)]

counterOnDecrement_NoHistory(s) == [s EXCEPT !.count = s.count - 1]
counterOnDecrement(s) ==
    [s EXCEPT !.count = s.count - 1, !.history = Append(s.history, s.count - 1)]

counterOnReset_KeepHistory(s) == [s EXCEPT !.count = 0]
counterOnReset(s) == initialCounterState

counterReducer_ResetOnClearLogs(s, action) ==
    CASE action.type = increment.type -> counterOnIncrement(s)
      [] action.type = decrement.type -> counterOnDecrement(s)
      [] action.type = reset.type     -> counterOnReset(s)
      [] action.type = clearLogs.type -> counterOnReset(s)
      [] OTHER                        -> s
counterReducer(s, action) ==
    CASE action.type = increment.type -> counterOnIncrement(s)
      [] action.type = decrement.type -> counterOnDecrement(s)
      [] action.type = reset.type     -> counterOnReset(s)
      [] OTHER                        -> s

----------------------------------------------------------------------------
(* todoReducer; t is the value Date.now() returns while addTodo is reduced *)

todoOnAddTodo_Prepend(s, action, t) ==
    [s EXCEPT !.todos =
        <<[id |-> t, text |-> action.text, completed |-> FALSE]>> \o s.todos]
todoOnAddTodo(s, action, t) ==
    [s EXCEPT !.todos = s.todos \o
        <<[id |-> t, text |-> action.text, completed |-> FALSE]>>]

todoOnToggleTodo_SetCompleted(s, action) ==
    LET flip(todo) == IF todo.id = action.id
                        THEN [todo EXCEPT !.completed = TRUE]
                        ELSE todo
    IN [s EXCEPT !.todos = [i \in 1..Len(s.todos) |-> flip(s.todos[i])]]
todoOnToggleTodo(s, action) ==
    LET flip(todo) == IF todo.id = action.id
                        THEN [todo EXCEPT !.completed = ~todo.completed]
                        ELSE todo
    IN [s EXCEPT !.todos = [i \in 1..Len(s.todos) |-> flip(s.todos[i])]]

todoOnDeleteTodo_First(s, action) ==
    [s EXCEPT !.todos = IF s.todos = <<>> THEN <<>> ELSE Tail(s.todos)]
todoOnDeleteTodo(s, action) ==
    LET keep(todo) == todo.id # action.id
    IN [s EXCEPT !.todos = SelectSeq(s.todos, keep)]

todoOnSetFilter(s, action) == [s EXCEPT !.filter = action.filter]

todoOnClearCompleted_ResetFilter(s) ==
    LET keep(todo) == ~todo.completed
    IN [s EXCEPT !.todos = SelectSeq(s.todos, keep), !.filter = "all"]
todoOnClearCompleted(s) ==
    LET keep(todo) == ~todo.completed
    IN [s EXCEPT !.todos = SelectSeq(s.todos, keep)]

todoReducer(s, action, t) ==
    CASE action.type = addTodo("").type      -> todoOnAddTodo(s, action, t)
      [] action.type = toggleTodo(0).type    -> todoOnToggleTodo(s, action)
      [] action.type = deleteTodo(0).type    -> todoOnDeleteTodo(s, action)
      [] action.type = setFilter("").type    -> todoOnSetFilter(s, action)
      [] action.type = clearCompleted.type   -> todoOnClearCompleted(s)
      [] OTHER -> s

----------------------------------------------------------------------------
(* todo selectors; s is the AppState                                       *)

selectTodoState(s) == s.todo
selectAllTodos(s) == selectTodoState(s).todos
selectFilter(s) == selectTodoState(s).filter

selectFilteredTodos_ActiveShowsAll(s) == selectAllTodos(s)
selectFilteredTodos(s) ==
    LET todos == selectAllTodos(s)
        active(t) == ~t.completed
        completed(t) == t.completed
    IN CASE selectFilter(s) = "active"    -> SelectSeq(todos, active)
         [] selectFilter(s) = "completed" -> SelectSeq(todos, completed)
         [] OTHER                         -> todos

selectActiveTodosCount(s) ==
    LET active(t) == ~t.completed IN Len(SelectSeq(selectAllTodos(s), active))

selectCompletedTodosCount(s) ==
    LET completed(t) == t.completed IN Len(SelectSeq(selectAllTodos(s), completed))

----------------------------------------------------------------------------
(* actionsLogReducer                                                       *)

\* the template literal `NAME (${payload})`
template_NoPayload(name, payload) == name
template(name, payload) == name \o " (" \o payload \o ")"

actionsLogOnClearLogs_Keep(s) == s
actionsLogOnClearLogs(s) == initialActionsLogState

actionsLogReducer(s, action) ==
    CASE action.type = increment.type ->
           [logs |-> slice(<<"INCREMENT">> \o s.logs, 0, 10)]
      [] action.type = decrement.type ->
           [logs |-> slice(<<"DECREMENT">> \o s.logs, 0, 10)]
      [] action.type = reset.type ->
           [logs |-> slice(<<"RESET">> \o s.logs, 0, 10)]
      [] action.type = addTodo("").type ->
           [logs |-> slice(<<template("ADD_TODO", action.text)>> \o s.logs, 0, 10)]
      [] action.type = toggleTodo(0).type ->
           [logs |-> slice(<<template("TOGGLE_TODO", ToString(action.id))>> \o s.logs, 0, 10)]
      [] action.type = deleteTodo(0).type ->
           [logs |-> slice(<<template("DELETE_TODO", ToString(action.id))>> \o s.logs, 0, 10)]
      [] action.type = setFilter("").type ->
           [logs |-> slice(<<template("SET_FILTER", action.filter)>> \o s.logs, 0, 10)]
      [] action.type = clearCompleted.type ->
           [logs |-> slice(<<"CLEAR_COMPLETED">> \o s.logs, 0, 10)]
      [] action.type = clearLogs.type -> actionsLogOnClearLogs(s)
      [] OTHER -> s

----------------------------------------------------------------------------
(* appReducers: the root reducer the store builds from the reducer map.    *)
(* The store reduces the slices one after the other, in the order of the   *)
(* keys of the map, each reducer seeing only its own slice.                *)

appReducerKeys == <<"counter", "todo", "actionsLog">>

reduceSlice(key, s, action, t) ==
    CASE key = "counter"    -> counterReducer(s, action)
      [] key = "todo"       -> todoReducer(s, action, t)
      [] key = "actionsLog" -> actionsLogReducer(s, action)

RECURSIVE combineFrom(_, _, _, _, _)
combineFrom(i, acc, ran, action, t) ==
    IF i > Len(appReducerKeys) THEN [state |-> acc, order |-> ran]
    ELSE LET key == appReducerKeys[i]
         IN combineFrom(i + 1,
                        [acc EXCEPT ![key] = reduceSlice(key, acc[key], action, t)],
                        Append(ran, key), action, t)

appReducers(s, action, t) == combineFrom(1, s, <<>>, action, t)

initialAppState ==
    [counter |-> initialCounterState,
     todo |-> initialTodoState,
     actionsLog |-> initialActionsLogState]

----------------------------------------------------------------------------
(* JavaScript strings, held as the sequence of their characters            *)

\* the characters String.prototype.trim removes (those the inputs use)
Whitespace == {" ", "\t"}

RECURSIVE trimStart(_)
trimStart(cs) ==
    IF cs # <<>> /\ Head(cs) \in Whitespace THEN trimStart(Tail(cs)) ELSE cs

RECURSIVE trimEnd(_)
trimEnd(cs) ==
    IF cs # <<>> /\ cs[Len(cs)] \in Whitespace
    THEN trimEnd(SubSeq(cs, 1, Len(cs) - 1)) ELSE cs

trim_StartOnly(cs) == trimStart(cs)
trim(cs) == trimEnd(trimStart(cs))

\* the string made of the characters cs
RECURSIVE str(_)
str(cs) == IF cs = <<>> THEN "" ELSE Head(cs) \o str(Tail(cs))

\* String.prototype.toLowerCase, for the letters the inputs use
toLowerCase(cs) ==
    LET lower(c) == CASE c = "A" -> "a" [] c = "B" -> "b" [] c = "E" -> "e"
                      [] c = "L" -> "l" [] c = "O" -> "o" [] OTHER -> c
    IN [k \in 1..Len(cs) |-> lower(cs[k])]

\* String.prototype.includes
includes(cs, part) ==
    \E k \in 0..(Len(cs) - Len(part)) : SubSeq(cs, k + 1, k + Len(part)) = part

\* an optional string argument: not passed, or passed with a value
undefinedSearch == [defined |-> FALSE, value |-> <<>>]
someSearch(cs) == [defined |-> TRUE, value |-> cs]

----------------------------------------------------------------------------
(* The inputs of the model                                                 *)

Texts == {"Buy milk"}
PayloadIds == {0, 1, 2, ClockStart}
Filters == {"all", "active", "completed"}

Actions ==
    {increment, decrement, reset, clearCompleted, clearLogs, storeInit}
    \cup {addTodo(x) : x \in Texts}
    \cup {toggleTodo(i) : i \in PayloadIds}
    \cup {deleteTodo(i) : i \in PayloadIds}
    \cup {setFilter(f) : f \in Filters}

LogActions == {reset, setFilter("active"), clearLogs}

\* what the API answers to GET /users (the fields the service reads)
ServerUsers ==
    << [id |-> 1, name |-> <<"L", "e", "a">>, email |-> <<"s", "@", "x">>],
       [id |-> 2, name |-> <<"B", "o">>,      email |-> <<"l", "e", "@", "y">>],
       [id |-> 3, name |-> <<"A", "l">>,      email |-> <<"b", "@", "O">>] >>

UserIds == {1, 2, 3}

\* the arguments filterUsers is called with
Searches ==
    { undefinedSearch, someSearch(<<>>), someSearch(<<" ">>),
      someSearch(<<"L", "E">>), someSearch(<<" ", "o", " ">>), someSearch(<<"q">>) }

\* what the user may have typed into the new-todo input
TypedTexts ==
    { <<>>, <<" ">>, <<"\t", " ">>, <<"a">>,
      <<" ", "a", " ", "b", "\t">>, <<"a", " ">> }

\* the actions the todo demo dispatches besides addTodo
DemoActions == {toggleTodo(ClockStart), deleteTodo(1), setFilter("active"), clearCompleted}

----------------------------------------------------------------------------
(* The store                                                               *)

Init ==
    /\ state = initialAppState
    /\ now = ClockStart
    /\ lastAction = storeInit
    /\ prev = initialAppState
    /\ order = appReducerKeys
    /\ sinceClear = <<>>
    /\ values = <<0>>
    /\ n = 0
    /\ twin = [state |-> initialAppState, now |-> ClockStart]
    /\ newTodoText = <<>>
    /\ submitted = <<>>
    /\ calls = 0
    /\ baseUsers = <<>>
    /\ users = <<>>
    /\ applied = undefinedSearch
    /\ inFlight = 1

\* store.dispatch(action)
Dispatch(action) ==
    LET r == appReducers(state, action, now) IN
    /\ state' = r.state
    /\ order' = r.order
    /\ prev' = state
    /\ lastAction' = action
    /\ sinceClear' = IF action = clearLogs THEN <<>> ELSE Append(sinceClear, action)
    /\ values' = IF action = reset THEN <<r.state.counter.count>>
                 ELSE IF r.state.counter.count # state.counter.count
                      THEN Append(values, r.state.counter.count)
                      ELSE values
    /\ n' = n + 1
    /\ UNCHANGED now

\* time passes
Tick ==
    /\ now < ClockStart + MaxTicks
    /\ now' = now + 1
    /\ UNCHANGED <<state, lastAction, prev, order, sinceClear, values, n, twin,
                   demoVars, userVars>>

DispatchAny ==
    /\ n < MaxDispatch
    /\ \E action \in Actions : Dispatch(action)
    /\ UNCHANGED <<twin, demoVars, userVars>>

Next == DispatchAny \/ Tick

Spec == Init /\ [][Next]_vars

\* long runs over a few actions, to fill the log
DispatchLog ==
    /\ n < MaxLogDispatch
    /\ \E action \in LogActions : Dispatch(action)
    /\ UNCHANGED <<twin, demoVars, userVars>>

NextLog == DispatchLog

SpecLog == Init /\ [][NextLog]_vars

\* two runs of the store given the same actions, each at its own time
DispatchBoth ==
    /\ n < MaxDispatch
    /\ \E action \in Actions :
          /\ Dispatch(action)
          /\ twin' = [twin EXCEPT !.state = appReducers(twin.state, action, twin.now).state]
    /\ UNCHANGED <<demoVars, userVars>>

TickTwin ==
    /\ twin.now < ClockStart + MaxTicks
    /\ twin' = [twin EXCEPT !.now = @ + 1]
    /\ UNCHANGED <<state, now, lastAction, prev, order, sinceClear, values, n,
                   demoVars, userVars>>

NextTwin == DispatchBoth \/ Tick \/ TickTwin

SpecTwin == Init /\ [][NextTwin]_vars

----------------------------------------------------------------------------
(* NgrxTodoDemo: the component in front of the todo slice                  *)

\* the input bound to newTodoText changes
TypeText ==
    /\ \E x \in TypedTexts : newTodoText' = x
    /\ UNCHANGED <<state, now, lastAction, prev, order, sinceClear, values, n, twin,
                   submitted, calls, userVars>>

\* NgrxTodoDemo.addTodo()
DemoAddTodo ==
    /\ calls < MaxCalls
    /\ n < MaxDispatch
    /\ LET text == trim(newTodoText) IN
          IF text # <<>>
          THEN /\ Dispatch(addTodo(str(text)))
               /\ newTodoText' = <<>>
          ELSE UNCHANGED <<state, now, lastAction, prev, order, sinceClear, values, n,
                           newTodoText>>
    /\ submitted' = newTodoText
    /\ calls' = calls + 1
    /\ UNCHANGED <<twin, userVars>>

\* NgrxTodoDemo.toggleTodo, deleteTodo, setFilter, clearCompleted
DemoDispatch ==
    /\ n < MaxDispatch
    /\ \E action \in DemoActions : Dispatch(action)
    /\ UNCHANGED <<twin, demoVars, userVars>>

NextDemo == TypeText \/ DemoAddTodo \/ DemoDispatch \/ Tick

SpecDemo == Init /\ [][NextDemo]_vars

----------------------------------------------------------------------------
(* UsersService, called by UserList                                        *)

\* UsersService.fetchUsers(): the request leaves
FetchUsers ==
    /\ inFlight < MaxInFlight
    /\ inFlight' = inFlight + 1
    /\ UNCHANGED <<state, now, lastAction, prev, order, sinceClear, values, n, twin,
                   demoVars, baseUsers, users, applied>>

\* the subscribe callback of fetchUsers: a request is answered
FetchResponse ==
    /\ inFlight > 0
    /\ baseUsers' = ServerUsers
    /\ users' = ServerUsers
    /\ inFlight' = inFlight - 1
    /\ UNCHANGED <<state, now, lastAction, prev, order, sinceClear, values, n, twin,
                   demoVars, applied>>

\* a request fails: subscribe was given no error callback
FetchError ==
    /\ inFlight > 0
    /\ inFlight' = inFlight - 1
    /\ UNCHANGED <<state, now, lastAction, prev, order, sinceClear, values, n, twin,
                   demoVars, baseUsers, users, applied>>

\* the users filterUsers(search) leaves in the signal; the users.set(baseUsers)
\* of a falsy search is overwritten by the set that follows it
filteredUsers(base, search) ==
    LET given == IF search.defined /\ search.value # <<>> THEN search.value ELSE <<>>
        searchLower == trim(toLowerCase(given))
        match(user) == \/ includes(toLowerCase(user.name), searchLower)
                       \/ includes(toLowerCase(user.email), searchLower)
    IN SelectSeq(base, match)

\* UsersService.filterUsers(search), run by the effect of UserList
FilterUsers ==
    /\ \E search \in Searches :
          /\ users' = filteredUsers(baseUsers, search)
          /\ applied' = search
    /\ UNCHANGED <<state, now, lastAction, prev, order, sinceClear, values, n, twin,
                   demoVars, baseUsers, inFlight>>

\* UsersService.deleteUser(userId)
DeleteUser ==
    /\ \E userId \in UserIds :
          LET keep(user) == user.id # userId IN
          /\ baseUsers' = SelectSeq(baseUsers, keep)
          /\ users' = SelectSeq(baseUsers, keep)
    /\ UNCHANGED <<state, now, lastAction, prev, order, sinceClear, values, n, twin,
                   demoVars, applied, inFlight>>

NextUsers == FetchUsers \/ FetchResponse \/ FetchError \/ FilterUsers \/ DeleteUser

SpecUsers == Init /\ [][NextUsers]_vars

----------------------------------------------------------------------------
(* Vocabulary of the properties                                            *)

logs == state.actionsLog.logs

CounterTypes == {"[Counter] Increment", "[Counter] Decrement", "[Counter] Reset"}
TodoTypes == {"[Todo] Add Todo", "[Todo] Toggle Todo", "[Todo] Delete Todo",
              "[Todo] Set Filter", "[Todo] Clear Completed"}

IsTracked(action) == action.type \in CounterTypes \cup TodoTypes

\* the entry the log is documented to show for a tracked action
DocumentedEntry(action) ==
    CASE action.type = "[Counter] Increment"   -> "INCREMENT"
      [] action.type = "[Counter] Decrement"   -> "DECREMENT"
      [] action.type = "[Counter] Reset"       -> "RESET"
      [] action.type = "[Todo] Clear Completed" -> "CLEAR_COMPLETED"
      [] action.type = "[Todo] Add Todo"    -> "ADD_TODO (" \o action.text \o ")"
      [] action.type = "[Todo] Toggle Todo" -> "TOGGLE_TODO (" \o ToString(action.id) \o ")"
      [] action.type = "[Todo] Delete Todo" -> "DELETE_TODO (" \o ToString(action.id) \o ")"
      [] action.type = "[Todo] Set Filter"  -> "SET_FILTER (" \o action.filter \o ")"

\* the tracked actions dispatched since the last clearLogs, oldest first
trackedSinceClear == SelectSeq(sinceClear, IsTracked)

----------------------------------------------------------------------------
\* C1: in every reachable state the actions-log slice holds at most 10 log
\* strings, whatever actions were dispatched.
C1_LogAtMostTen == Len(logs) <= 10

\* an eleventh tracked action arrived at a log that already held 10 entries
C1_Witness ==
    /\ Len(prev.actionsLog.logs) = 10
    /\ IsTracked(lastAction)
    /\ Len(trackedSinceClear) = 11
    /\ Len(logs) = 10

\* C2: logs is exactly the entries of the most recent min(n, 10) tracked
\* actions dispatched since the last clearLogs, newest first; a tracked action
\* prepends its entry and keeps the previous entries in their order, dropping
\* only the oldest one when 10 were already present.
C2_LogIsRecentTracked ==
    LET t == trackedSinceClear
        k == IF Len(t) < 10 THEN Len(t) ELSE 10
        before == prev.actionsLog.logs
    IN /\ logs = [i \in 1..k |-> DocumentedEntry(t[Len(t) - i + 1])]
       /\ IsTracked(lastAction) =>
            /\ logs[1] = DocumentedEntry(lastAction)
            /\ Tail(logs) = IF Len(before) = 10 THEN SubSeq(before, 1, 9) ELSE before

\* the oldest of eleven tracked actions, of two different kinds, was dropped
C2_Witness ==
    /\ Len(trackedSinceClear) = 11
    /\ trackedSinceClear[1] = reset
    /\ trackedSinceClear[2] = setFilter("active")
    /\ logs[10] = "SET_FILTER (active)"
    /\ logs[1] = "RESET"
    /\ lastAction = reset

\* C3: clearLogs sets logs to the empty sequence and leaves the counter slice
\* and the todo slice exactly as they were.
C3_ClearLogsFrame ==
    lastAction = clearLogs =>
        /\ logs = <<>>
        /\ state.counter = prev.counter
        /\ state.todo = prev.todo

\* clearLogs arrived with entries in the log and both other slices changed
C3_Witness ==
    /\ lastAction = clearLogs
    /\ prev.actionsLog.logs # <<>>
    /\ prev.counter # initialCounterState
    /\ prev.todo # initialTodoState

\* C4: every counter and todo action places its entry at index 0 of logs in
\* the transition in which its own slice handles it: the bare name for
\* actions without payload, 'NAME (payload)' for the others.
C4_TrackedActionLogged ==
    IsTracked(lastAction) =>
        /\ logs # <<>>
        /\ logs[1] = DocumentedEntry(lastAction)
        /\ lastAction \in {increment, decrement} => state.counter # prev.counter
        /\ lastAction.type = "[Todo] Add Todo" =>
              Len(state.todo.todos) = Len(prev.todo.todos) + 1
        /\ lastAction.type = "[Todo] Set Filter" =>
              state.todo.filter = lastAction.filter

\* a payload action was logged on top of another payload action
C4_Witness ==
    /\ lastAction = toggleTodo(2)
    /\ Len(logs) = 3
    /\ logs[1] = "TOGGLE_TODO (2)"
    /\ logs[2] = "ADD_TODO (Buy milk)"
    /\ logs[3] = "SET_FILTER (completed)"
    /\ state.todo.todos[2].completed = FALSE

\* position of a slice key in the order the last dispatch reduced the slices
ranAt(key) == CHOOSE i \in 1..Len(order) : order[i] = key

\* C5: when increment is dispatched, the actions-log reducer handles the
\* action before the counter reducer updates count and history.
C5_LogReducerRunsFirst ==
    lastAction = increment => ranAt("actionsLog") < ranAt("counter")

\* C6: the reducers are pure functions of (state, action): two runs of the
\* store started in the same state and given the same actions end in
\* identical states.
C6_RunsAgree == twin.state = state

\* C7: the store state changes only through dispatched actions, the counter
\* slice changes only on increment, decrement and reset, and the todo slice
\* only on addTodo, toggleTodo, deleteTodo, setFilter and clearCompleted.
C7_SlicesIndependent ==
    [][ /\ n' = n => state' = state
        /\ n' # n =>
             /\ lastAction'.type \notin CounterTypes => state'.counter = state.counter
             /\ lastAction'.type \notin TodoTypes => state'.todo = state.todo
      ]_vars

\* an action no slice knows, and an action of the other feature, arrived
\* after the slice had left its initial state
C7_Witness ==
    /\ lastAction \in {storeInit, clearLogs, toggleTodo(2)}
    /\ n = 3
    /\ prev.counter = state.counter
    /\ state.counter.count = 2

\* C8: increment yields count = c + 1 and history = h followed by c + 1;
\* decrement yields count = c - 1 and history = h followed by c - 1, with no
\* lower bound on count.
C8_IncrementDecrement ==
    LET c == prev.counter.count
        h == prev.counter.history
    IN /\ lastAction = increment =>
            state.counter = [count |-> c + 1, history |-> h \o <<c + 1>>]
       /\ lastAction = decrement =>
            state.counter = [count |-> c - 1, history |-> h \o <<c - 1>>]

\* decrement took the count below zero after an increment
C8_Witness ==
    /\ lastAction = decrement
    /\ state.counter = [count |-> -1, history |-> <<0, 1, 0, -1>>]

\* C9: reset sets the counter slice back to count = 0, history = [0],
\* whatever the previous count and history were.
C9_ResetRestoresInitial ==
    lastAction = reset => state.counter = [count |-> 0, history |-> <<0>>]

\* reset arrived at a counter away from 0 with a history of several values
C9_Witness ==
    /\ lastAction = reset
    /\ prev.counter.count = -2
    /\ Len(prev.counter.history) = 3
    /\ state.counter.count = 0

\* C10: the history is never empty, ends with count, lists in order every
\* value count has taken since the most recent reset (or since start), and
\* its consecutive elements differ by exactly 1.
C10_HistoryTracksCount ==
    LET h == state.counter.history IN
    /\ h # <<>>
    /\ h[Len(h)] = state.counter.count
    /\ h = values
    /\ \A i \in 1..(Len(h) - 1) : h[i + 1] - h[i] \in {1, -1}

\* the count moved, was reset, and moved again
C10_Witness ==
    /\ n = 3
    /\ sinceClear = <<decrement, reset, increment>>
    /\ state.counter.history = <<0, 1>>

\* the elements of arr at the indices in idx, in their order in arr
\* (written without the sequence operators the model uses)
RECURSIVE pickFrom(_, _, _)
pickFrom(arr, idx, i) ==
    IF i > Len(arr) THEN <<>>
    ELSE (IF i \in idx THEN <<arr[i]>> ELSE <<>>) \o pickFrom(arr, idx, i + 1)
pick(arr, idx) == pickFrom(arr, idx, 1)

todos == state.todo.todos

\* C11: selectFilteredTodos returns all todos for filter 'all', exactly the
\* todos that are not completed for 'active' and exactly the completed ones
\* for 'completed', always in the relative order of state.todos.
C11_FilteredTodos ==
    LET wanted ==
          CASE state.todo.filter = "all" -> 1..Len(todos)
            [] state.todo.filter = "active" ->
                 {i \in 1..Len(todos) : todos[i].completed = FALSE}
            [] state.todo.filter = "completed" ->
                 {i \in 1..Len(todos) : todos[i].completed = TRUE}
    IN selectFilteredTodos(state) = pick(todos, wanted)

\* the 'active' filter hides a completed todo that lies between active ones
C11_Witness ==
    /\ state.todo.filter = "active"
    /\ Len(todos) = 4
    /\ todos[2].completed /\ ~todos[1].completed /\ ~todos[4].completed
    /\ Len(selectFilteredTodos(state)) = 3

\* C12: todo ids are unique: no two todos in state.todos have the same id,
\* the initial ids 1, 2, 3 included.
C12_IdsUnique ==
    \A i, j \in 1..Len(todos) : todos[i].id = todos[j].id => i = j

\* the todos before the last dispatch
beforeTodos == prev.todo.todos

\* C13: clearCompleted removes exactly the completed todos, keeps every other
\* todo unchanged and in its relative order, leaves filter unchanged, and
\* afterwards selectCompletedTodosCount is 0.
C13_ClearCompleted ==
    lastAction = clearCompleted =>
        /\ todos = pick(beforeTodos,
                        {i \in 1..Len(beforeTodos) : beforeTodos[i].completed = FALSE})
        /\ state.todo.filter = prev.todo.filter
        /\ selectCompletedTodosCount(state) = 0

\* clearCompleted removed two completed todos around one that stayed, under
\* a filter other than the initial one
C13_Witness ==
    /\ lastAction = clearCompleted
    /\ Len(beforeTodos) = 3
    /\ beforeTodos[1].completed /\ beforeTodos[2].completed
    /\ Len(todos) = 1
    /\ state.todo.filter = "completed"

\* C14: toggleTodo({id}) inverts the completed flag of the todo with that id
\* and changes nothing else: the other todos, the order and length of todos
\* and filter are unchanged; with no such todo the slice is unchanged.
C14_ToggleTodo ==
    lastAction.type = "[Todo] Toggle Todo" =>
        /\ Len(todos) = Len(beforeTodos)
        /\ \A i \in 1..Len(beforeTodos) :
              IF beforeTodos[i].id = lastAction.id
              THEN /\ todos[i].completed = ~beforeTodos[i].completed
                   /\ todos[i].id = beforeTodos[i].id
                   /\ todos[i].text = beforeTodos[i].text
              ELSE todos[i] = beforeTodos[i]
        /\ state.todo.filter = prev.todo.filter
        /\ (\A i \in 1..Len(beforeTodos) : beforeTodos[i].id # lastAction.id)
              => state.todo = prev.todo

\* a completed todo was toggled back to active, under the 'active' filter
C14_Witness ==
    /\ lastAction = toggleTodo(2)
    /\ beforeTodos[2].completed
    /\ ~todos[2].completed
    /\ state.todo.filter = "active"
    /\ Len(todos) = 3

\* C15: deleteTodo({id}) removes the todo with that id and nothing else: no
\* todo has that id afterwards, the others stay unchanged in their relative
\* order, filter is unchanged, and an absent id leaves the slice unchanged.
C15_DeleteTodo ==
    lastAction.type = "[Todo] Delete Todo" =>
        /\ \A i \in 1..Len(todos) : todos[i].id # lastAction.id
        /\ todos = pick(beforeTodos,
                        {i \in 1..Len(beforeTodos) : beforeTodos[i].id # lastAction.id})
        /\ state.todo.filter = prev.todo.filter
        /\ (\A i \in 1..Len(beforeTodos) : beforeTodos[i].id # lastAction.id)
              => state.todo = prev.todo

\* the todo in the middle of the list was deleted
C15_Witness ==
    /\ lastAction = deleteTodo(2)
    /\ Len(beforeTodos) = 4
    /\ Len(todos) = 3
    /\ todos[1].id = 1 /\ todos[2].id = 3 /\ todos[3].id >= ClockStart

\* C16: addTodo({text}) adds exactly one todo at the end of state.todos, with
\* the given text and completed = false; the todos present before keep their
\* position and content, and filter is unchanged.
C16_AddTodo ==
    lastAction.type = "[Todo] Add Todo" =>
        /\ Len(todos) = Len(beforeTodos) + 1
        /\ \A i \in 1..Len(beforeTodos) : todos[i] = beforeTodos[i]
        /\ todos[Len(todos)].text = lastAction.text
        /\ todos[Len(todos)].completed = FALSE
        /\ state.todo.filter = prev.todo.filter

\* a todo was added to a list that had changed, under the 'completed' filter
C16_Witness ==
    /\ lastAction = addTodo("Buy milk")
    /\ Len(beforeTodos) = 2
    /\ state.todo.filter = "completed"
    /\ todos[3] = [id |-> now, text |-> "Buy milk", completed |-> FALSE]

\* a string is blank when all its characters are whitespace
isBlank(x) == \A k \in 1..Len(x) : x[k] \in {" ", "\t"}

\* a non-blank string without the whitespace before its first and after its
\* last other character
core(x) ==
    LET solid == {k \in 1..Len(x) : x[k] \notin {" ", "\t"}}
        first == CHOOSE k \in solid : \A m \in solid : k <= m
        last == CHOOSE k \in solid : \A m \in solid : m <= k
    IN [k \in 1..(last - first + 1) |-> x[first + k - 1]]

\* the non-empty strings of up to three characters that neither start nor
\* end with whitespace
CleanStrings ==
    LET chars == {"a", "b", " ", "\t"}
        seqs == UNION {[1..len -> chars] : len \in 1..3}
    IN {str(c) : c \in {c \in seqs : c[1] \notin {" ", "\t"} /\ c[Len(c)] \notin {" ", "\t"}}}

\* C17: NgrxTodoDemo.addTodo dispatches nothing and changes neither the todo
\* slice, the log nor newTodoText when the trimmed input is empty; otherwise
\* it dispatches exactly one addTodo carrying the trimmed text and resets
\* newTodoText to ''. So every todo added through the component has a
\* non-empty text without leading or trailing whitespace.
C17_AddTodoValidates ==
    /\ [][ calls' # calls =>
             IF isBlank(newTodoText)
             THEN /\ n' = n
                  /\ state' = state
                  /\ newTodoText' = newTodoText
             ELSE /\ n' = n + 1
                  /\ lastAction' = addTodo(str(core(newTodoText)))
                  /\ newTodoText' = <<>>
         ]_vars
    /\ [](\A i \in 1..Len(todos) :
             todos[i].id >= ClockStart => todos[i].text \in CleanStrings)

\* a blank input was refused, then an input with whitespace around and
\* inside its text was added
C17_Witness ==
    /\ calls = 2
    /\ n = 1
    /\ submitted = <<" ", "a", " ", "b", "\t">>
    /\ lastAction = addTodo("a b")
    /\ todos[Len(todos)].text = "a b"
    /\ newTodoText = <<>>

\* whether the characters part occur next to each other in cs
occursIn(part, cs) ==
    \E from \in 1..(Len(cs) + 1) :
        /\ from + Len(part) - 1 <= Len(cs)
        /\ \A k \in 1..Len(part) : cs[from + k - 1] = part[k]

\* C18: users is the filtered view of baseUsers: it equals baseUsers
\* restricted to the users whose name or email contains the most recently
\* applied search string (case-insensitive, trimmed), and equals baseUsers
\* when that search is empty or undefined.
C18_UsersIsFilteredView ==
    IF ~applied.defined \/ applied.value = <<>>
    THEN users = baseUsers
    ELSE LET wantedText == IF isBlank(applied.value) THEN <<>>
                           ELSE toLowerCase(core(applied.value))
             wanted == {i \in 1..Len(baseUsers) :
                          \/ occursIn(wantedText, toLowerCase(baseUsers[i].name))
                          \/ occursIn(wantedText, toLowerCase(baseUsers[i].email))}
         IN users = pick(baseUsers, wanted)

====
